---- MODULE Spec2Model ----
(***************************************************************************)
(* morph: the rollout driver of src/morph.go (main, doDeploy,              *)
(* doHealthCheck and the helpers they call) as a sequential state machine. *)
(* One invocation of the program is one behaviour: pc is the position of   *)
(* the single thread of control; every call to a collaborator package      *)
(* (nix, secrets, ssh, vault, healthchecks, terminal) is a step whose      *)
(* outcome is drawn from the results that call can return.                 *)
(***************************************************************************)
EXTENDS Integers, Sequences, FiniteSets, TLC

\* Bounds of the model: selected hosts per invocation, declared static
\* secrets per host.
MaxHosts == 2
MaxSecrets == 2

\* switchAction, the Enum of line 34.
Modes == {"build", "push", "dry-activate", "test", "switch", "boot"}

\* The commands of lines 32 and 38.
Commands == {"deploy", "check-health"}

\* What the driver reads of a nix.Host: host.Vault.Enable (line 122) and
\* len(host.Secrets) (line 343).
HostType == [vault : BOOLEAN, secrets : 0..MaxSecrets]

\* The ordered host lists getHosts can return (line 289).
Inventories == UNION {[1..n -> HostType] : n \in 0..MaxHosts}

\* Per-host call counters: nix.Push, vault.CreateOrReKeyHostToken,
\* secrets.UploadSecret of the synthesized credential (line 131),
\* secrets.UploadSecret of a declared secret (line 350),
\* ssh.ActivateConfiguration, healthchecks.Perform, the calls of
\* healthchecks.Perform that returned an error, and the "Done:" line.
NoOps == [push |-> 0, rekey |-> 0, dynUp |-> 0, upload |-> 0,
          activate |-> 0, health |-> 0, unhealthy |-> 0, done |-> 0]

\* Invocation-wide call counters: build(), askForSudoPassword(),
\* vault.Auth, vault.Configure, assets.Teardown.
NoCalls == [build |-> 0, ask |-> 0, auth |-> 0, configure |-> 0, teardown |-> 0]

VARIABLES
    command,                 \* the parsed command (line 67)
    dryRun,                  \* --dry-run (line 27)
    switchAction,            \* the mode argument (line 34)
    deployAskForSudoPasswd,  \* --passwd (line 35)
    deploySkipHealthChecks,  \* --skip-health-checks (line 36)
    envVault,                \* VAULT_ADDR and VAULT_TOKEN are both set (line 192)
    inventory,               \* what getHosts yields when it succeeds
    pc,                      \* position of the thread of control
    hosts,                   \* the hosts variable of doDeploy / doHealthCheck
    resultPath,              \* line 103: "" until build() has returned it
    i,                       \* index of the host the range loop is on
    doPush, doAskPass, doUploadSecrets, doActivate,   \* lines 46-49
    sudoPasswd,              \* line 106
    vc,                      \* line 113: "nil" or "client"
    tempFile,                \* tempDir/vault.env exists (line 225)
    remaining,               \* declared secrets the loop of line 343 has left
    assetsUp,                \* the unpacked assets exist (lines 43, 74)
    exitStatus,              \* -1 while running, else the process status
    last,                    \* <<call, result>> of the latest collaborator call
    passed,                  \* sudo passwords handed to UploadSecret / Activate
    calls,                   \* invocation-wide call counters
    ops                      \* per-host call counters

inputs == <<command, dryRun, switchAction, deployAskForSudoPasswd,
            deploySkipHealthChecks, envVault, inventory>>
plan == <<doPush, doAskPass, doUploadSecrets, doActivate>>
vars == <<inputs, pc, hosts, resultPath, i, plan, sudoPasswd, vc, tempFile, remaining,
          assetsUp, exitStatus, last, passed, calls, ops>>

HostIds == 1..Len(inventory)

Bump(h, f) == [ops EXCEPT ![h][f] = @ + 1]
Call(f) == [calls EXCEPT ![f] = @ + 1]

\* A fatal error reported with os.Exit(1), as line 151 ends the health gate,
\* instead of a panic.
PanicAsHalt(call, err) ==
    /\ pc' = "exited"
    /\ exitStatus' = 1
    /\ last' = <<call, err>>

\* A panic unwinds main without running line 74; the Go runtime exits 2.
Panic(call, err) ==
    /\ pc' = "panicked"
    /\ exitStatus' = 2
    /\ last' = <<call, err>>

\* The state once the package variables are initialised and init() (lines
\* 51-64) has returned without panicking, and the command line is parsed.
\* The deploy-only flags keep their defaults under check-health.
Init ==
    /\ command \in Commands
    /\ dryRun \in BOOLEAN
    /\ envVault \in BOOLEAN
    /\ inventory \in Inventories
    /\ IF command = "deploy"
          THEN /\ switchAction \in Modes
               /\ deployAskForSudoPasswd \in BOOLEAN
               /\ deploySkipHealthChecks \in BOOLEAN
          ELSE /\ switchAction = ""
               /\ deployAskForSudoPasswd = FALSE
               /\ deploySkipHealthChecks = FALSE
    /\ pc = "main"
    /\ hosts = <<>>
    /\ resultPath = ""
    /\ i = 0
    /\ doPush = FALSE
    /\ doAskPass = FALSE
    /\ doUploadSecrets = FALSE
    /\ doActivate = FALSE
    /\ sudoPasswd = ""
    /\ vc = "nil"
    /\ tempFile = FALSE
    /\ remaining = 0
    /\ assetsUp = TRUE
    /\ exitStatus = -1
    /\ last = <<"init", "ok">>
    /\ passed = {}
    /\ calls = NoCalls
    /\ ops = [h \in HostIds |-> NoOps]

\* main, lines 67-72: dispatch on the command.
Main ==
    /\ pc = "main"
    /\ pc' = IF command = "deploy" THEN "doDeploy" ELSE "doHealthCheck"
    /\ UNCHANGED <<inputs, hosts, resultPath, i, plan, sudoPasswd, vc, tempFile, remaining,
                   assetsUp, exitStatus, last, passed, calls, ops>>

\* PlanFor with the sudo password asked for in every activating mode,
\* --passwd given or not.
PlanForAlwaysAsk(dry, mode, passwd) ==
    IF dry THEN [push |-> FALSE, ask |-> FALSE, upload |-> FALSE, activate |-> FALSE]
    ELSE IF mode = "push"
        THEN [push |-> TRUE, ask |-> FALSE, upload |-> FALSE, activate |-> FALSE]
    ELSE IF mode = "dry-activate"
        THEN [push |-> TRUE, ask |-> TRUE, upload |-> FALSE, activate |-> TRUE]
    ELSE IF mode \in {"test", "switch", "boot"}
        THEN [push |-> TRUE, ask |-> TRUE, upload |-> TRUE, activate |-> TRUE]
    ELSE [push |-> FALSE, ask |-> FALSE, upload |-> FALSE, activate |-> FALSE]

\* PlanFor with the dry-activate case falling through to the test/switch/boot
\* case, as a missing break would make it: dry-activate then uploads secrets.
PlanForFallthrough(dry, mode, passwd) ==
    IF dry THEN [push |-> FALSE, ask |-> FALSE, upload |-> FALSE, activate |-> FALSE]
    ELSE IF mode = "push"
        THEN [push |-> TRUE, ask |-> FALSE, upload |-> FALSE, activate |-> FALSE]
    ELSE IF mode \in {"dry-activate", "test", "switch", "boot"}
        THEN [push |-> TRUE, ask |-> passwd, upload |-> TRUE, activate |-> TRUE]
    ELSE [push |-> FALSE, ask |-> FALSE, upload |-> FALSE, activate |-> FALSE]

\* doDeploy, lines 78-101: the four plan flags for (dry-run, mode, --passwd).
PlanFor(dry, mode, passwd) ==
    IF dry THEN [push |-> FALSE, ask |-> FALSE, upload |-> FALSE, activate |-> FALSE]
    ELSE IF mode = "push"
        THEN [push |-> TRUE, ask |-> FALSE, upload |-> FALSE, activate |-> FALSE]
    ELSE IF mode = "dry-activate"
        THEN [push |-> TRUE, ask |-> passwd, upload |-> FALSE, activate |-> TRUE]
    ELSE IF mode \in {"test", "switch", "boot"}
        THEN [push |-> TRUE, ask |-> passwd, upload |-> TRUE, activate |-> TRUE]
    ELSE [push |-> FALSE, ask |-> FALSE, upload |-> FALSE, activate |-> FALSE]

\* doDeploy, lines 77-101: the flags are only ever set to true, from the
\* false of lines 46-49.
ResolvePlan ==
    /\ pc = "doDeploy"
    /\ LET p == PlanFor(dryRun, switchAction, deployAskForSudoPasswd) IN
        /\ doPush' = (doPush \/ p.push)
        /\ doAskPass' = (doAskPass \/ p.ask)
        /\ doUploadSecrets' = (doUploadSecrets \/ p.upload)
        /\ doActivate' = (doActivate \/ p.activate)
    /\ pc' = "build"
    /\ UNCHANGED <<inputs, hosts, resultPath, i, sudoPasswd, vc, tempFile, remaining,
                   assetsUp, exitStatus, last, passed, calls, ops>>

\* What build() (lines 292-312) can come to: getHosts fails (line 302),
\* nix.BuildMachines fails (line 307), or both succeed.
BuildOutcomes == {"ok", "EvaluationError", "BuildError"}

\* Build with the error of nix.BuildMachines logged instead of raised: the
\* driver goes on with the selected hosts and an empty result path.
BuildErrorIgnored ==
    /\ pc = "build"
    /\ calls' = Call("build")
    /\ \E r \in BuildOutcomes :
        IF r = "EvaluationError"
           THEN /\ Panic("build", r)
                /\ UNCHANGED <<hosts, resultPath>>
           ELSE /\ hosts' = inventory
                /\ resultPath' = IF r = "ok" THEN "result" ELSE ""
                /\ pc' = "askPass"
                /\ last' = <<"build", r>>
                /\ UNCHANGED exitStatus
    /\ UNCHANGED <<inputs, i, plan, sudoPasswd, vc, tempFile, remaining,
                   assetsUp, passed, ops>>

\* doDeploy line 103 and build, lines 292-312.
Build ==
    /\ pc = "build"
    /\ calls' = Call("build")
    /\ \E r \in BuildOutcomes :
        IF r = "ok"
           THEN /\ hosts' = inventory
                /\ resultPath' = "result"
                /\ pc' = "askPass"
                /\ last' = <<"build", r>>
                /\ UNCHANGED exitStatus
           ELSE /\ Panic("build", r)
                /\ UNCHANGED <<hosts, resultPath>>
    /\ UNCHANGED <<inputs, i, plan, sudoPasswd, vc, tempFile, remaining,
                   assetsUp, passed, ops>>

\* terminal.ReadPassword, line 316.
AskOutcomes == {"ok", "ReadError"}

\* doDeploy lines 106-113 and askForSudoPassword, lines 314-321.
AskPass ==
    /\ pc = "askPass"
    /\ IF doAskPass
          THEN /\ calls' = Call("ask")
               /\ \E r \in AskOutcomes :
                    IF r = "ok"
                       THEN /\ sudoPasswd' = "pw"
                            /\ pc' = "loop"
                            /\ last' = <<"ask", r>>
                            /\ UNCHANGED exitStatus
                       ELSE /\ Panic("ask", r)
                            /\ UNCHANGED sudoPasswd
          ELSE /\ pc' = "loop"
               /\ UNCHANGED <<calls, sudoPasswd, exitStatus, last>>
    /\ UNCHANGED <<inputs, hosts, resultPath, i, plan, vc, tempFile, remaining,
                   assetsUp, passed, ops>>

\* NextHost with the loop started over from the first host once the last
\* host is done, instead of returning.
NextHostRevisits ==
    /\ pc = "loop"
    /\ IF i < Len(hosts)
          THEN /\ i' = i + 1
               /\ pc' = "push"
          ELSE IF i > 0 /\ exitStatus = -1
          THEN /\ i' = 1
               /\ pc' = "push"
          ELSE /\ pc' = "teardown"
               /\ UNCHANGED i
    /\ UNCHANGED <<inputs, hosts, resultPath, plan, sudoPasswd, vc, tempFile, remaining,
                   assetsUp, exitStatus, last, passed, calls, ops>>

\* NextHost with the loop body entered past the push of lines 117-119.
NextHostSkipsPush ==
    /\ pc = "loop"
    /\ IF i < Len(hosts)
          THEN /\ i' = i + 1
               /\ pc' = "vault"
          ELSE /\ pc' = "teardown"
               /\ UNCHANGED i
    /\ UNCHANGED <<inputs, hosts, resultPath, plan, sudoPasswd, vc, tempFile, remaining,
                   assetsUp, exitStatus, last, passed, calls, ops>>

\* doDeploy line 114: the range loop takes the next host, or doDeploy
\* returns to main (line 157).
NextHost ==
    /\ pc = "loop"
    /\ IF i < Len(hosts)
          THEN /\ i' = i + 1
               /\ pc' = "push"
          ELSE /\ pc' = "teardown"
               /\ UNCHANGED i
    /\ UNCHANGED <<inputs, hosts, resultPath, plan, sudoPasswd, vc, tempFile, remaining,
                   assetsUp, exitStatus, last, passed, calls, ops>>

\* The host the loop body is working on (line 114).
host == hosts[i]

\* nix.GetPathsToPush (line 325).
PathsOutcomes == {"ok", "PathsError"}

\* nix.Push (line 333), whose code is outside this file:
\* push(host, paths) -> () | TransferError.
TransferOutcomes == {"ok", "TransferError"}

\* doDeploy lines 117-120 and pushPaths, lines 323-335: only the error of
\* nix.GetPathsToPush is looked at; nix.Push is called as a statement.
PushPaths ==
    /\ pc = "push"
    /\ IF doPush
          THEN \E p \in PathsOutcomes, r \in TransferOutcomes :
                IF p # "ok"
                   THEN /\ Panic("paths", p)
                        /\ UNCHANGED ops
                   ELSE /\ ops' = Bump(i, "push")
                        /\ last' = <<"push", r>>
                        /\ pc' = "vault"
                        /\ UNCHANGED exitStatus
          ELSE /\ pc' = "vault"
               /\ UNCHANGED <<ops, last, exitStatus>>
    /\ UNCHANGED <<inputs, hosts, resultPath, i, plan, sudoPasswd, vc, tempFile, remaining,
                   assetsUp, passed, calls>>

\* The session set up anew for every host that opts in, held or not.
AlwaysVaultInit(c) == TRUE

\* doDeploy line 124: a session is set up when none is held.
NeedsVaultInit(c) == c = "nil"

\* vault.Auth (line 194) and vault.Configure (line 200).
AuthOutcomes == {"ok", "AuthError"}
ConfigureOutcomes == {"ok", "ConfigError"}

\* doDeploy lines 122-128 and vaultInit, lines 187-213.
VaultSession ==
    /\ pc = "vault"
    /\ IF ~host.vault
          THEN /\ pc' = "secrets"
               /\ UNCHANGED <<vc, calls, last>>
          ELSE IF NeedsVaultInit(vc)
          THEN IF envVault
                  THEN \E a \in AuthOutcomes, c \in ConfigureOutcomes :
                        IF a # "ok"
                           THEN /\ calls' = Call("auth")
                                /\ vc' = "nil"
                                /\ last' = <<"auth", a>>
                                /\ pc' = "secrets"
                           ELSE /\ calls' = [calls EXCEPT !["auth"] = @ + 1,
                                                          !["configure"] = @ + 1]
                                /\ vc' = IF c = "ok" THEN "client" ELSE "nil"
                                /\ last' = <<"configure", c>>
                                /\ pc' = IF c = "ok" THEN "rekey" ELSE "secrets"
                  ELSE /\ vc' = "nil"
                       /\ last' = <<"getenv", "NoEnv">>
                       /\ pc' = "secrets"
                       /\ UNCHANGED calls
          ELSE /\ pc' = "rekey"
               /\ UNCHANGED <<vc, calls, last>>
    /\ UNCHANGED <<inputs, hosts, resultPath, i, plan, sudoPasswd, tempFile, remaining,
                   assetsUp, exitStatus, passed, ops>>

\* vault.CreateOrReKeyHostToken (line 219) and os.OpenFile (line 227).
ReKeyOutcomes == {"ok", "RekeyError", "OpenError"}

\* VaultReKey with the rekey error raised (panic) instead of warned about.
VaultReKeyFatal ==
    /\ pc = "rekey"
    /\ ops' = Bump(i, "rekey")
    /\ \E r \in ReKeyOutcomes :
        IF r = "ok"
           THEN /\ last' = <<"rekey", r>>
                /\ tempFile' = TRUE
                /\ pc' = "uploadDyn"
                /\ UNCHANGED exitStatus
           ELSE /\ Panic("rekey", r)
                /\ UNCHANGED tempFile
    /\ UNCHANGED <<inputs, hosts, resultPath, i, plan, sudoPasswd, vc, remaining,
                   assetsUp, passed, calls>>

\* doDeploy lines 129-130 and vaultReKey, lines 215-250: a secret is returned
\* only when the token was rekeyed and the credential file was written.
VaultReKey ==
    /\ pc = "rekey"
    /\ ops' = Bump(i, "rekey")
    /\ \E r \in ReKeyOutcomes :
        /\ last' = <<"rekey", r>>
        /\ IF r = "ok"
              THEN /\ tempFile' = TRUE
                   /\ pc' = "uploadDyn"
              ELSE /\ pc' = "secrets"
                   /\ UNCHANGED tempFile
    /\ UNCHANGED <<inputs, hosts, resultPath, i, plan, sudoPasswd, vc, remaining,
                   assetsUp, exitStatus, passed, calls>>

\* secrets.UploadSecret (lines 131 and 350).
UploadOutcomes == {"ok", "UploadError"}

\* UploadDynamic with the upload error raised, as uploadSecrets raises it
\* at line 353.
UploadDynamicFatal ==
    /\ pc = "uploadDyn"
    /\ ops' = Bump(i, "dynUp")
    /\ passed' = passed \cup {sudoPasswd}
    /\ \E r \in UploadOutcomes :
        IF r = "ok"
           THEN /\ last' = <<"uploadDyn", r>>
                /\ pc' = "remove"
                /\ UNCHANGED exitStatus
           ELSE Panic("uploadDyn", r)
    /\ UNCHANGED <<inputs, hosts, resultPath, i, plan, sudoPasswd, vc, tempFile, remaining,
                   assetsUp, calls>>

\* doDeploy line 131: the credential file is uploaded; the result of
\* secrets.UploadSecret is not looked at.
UploadDynamic ==
    /\ pc = "uploadDyn"
    /\ ops' = Bump(i, "dynUp")
    /\ passed' = passed \cup {sudoPasswd}
    /\ \E r \in UploadOutcomes : last' = <<"uploadDyn", r>>
    /\ pc' = "remove"
    /\ UNCHANGED <<inputs, hosts, resultPath, i, plan, sudoPasswd, vc, tempFile, remaining,
                   assetsUp, exitStatus, calls>>

\* RemoveTemp with the removal made to depend on the upload having succeeded.
RemoveTempOnSuccess ==
    /\ pc = "remove"
    /\ tempFile' = (tempFile /\ last[2] # "ok")
    /\ pc' = "secrets"
    /\ UNCHANGED <<inputs, hosts, resultPath, i, plan, sudoPasswd, vc, remaining,
                   assetsUp, exitStatus, last, passed, calls, ops>>

\* doDeploy line 132: os.Remove(secret.Source).
RemoveTemp ==
    /\ pc = "remove"
    /\ tempFile' = FALSE
    /\ pc' = "secrets"
    /\ UNCHANGED <<inputs, hosts, resultPath, i, plan, sudoPasswd, vc, remaining,
                   assetsUp, exitStatus, last, passed, calls, ops>>

\* doDeploy lines 138-140 and uploadSecrets lines 337-343: the loop over
\* host.Secrets starts when the plan uploads secrets.
StartSecrets ==
    /\ pc = "secrets"
    /\ IF doUploadSecrets
          THEN /\ remaining' = host.secrets
               /\ pc' = "secretLoop"
          ELSE /\ pc' = "activate"
               /\ UNCHANGED remaining
    /\ UNCHANGED <<inputs, hosts, resultPath, i, plan, sudoPasswd, vc, tempFile,
                   assetsUp, exitStatus, last, passed, calls, ops>>

\* secrets.GetSecretSize (line 344) then secrets.UploadSecret (line 350).
SecretOutcomes == {"ok", "NotFoundError", "UploadError"}

\* The upload error of a declared secret dropped, as line 131 drops it.
UploadNeverFatal(err) == FALSE

\* uploadSecrets line 351: an upload error of a declared secret panics.
UploadFatal(err) == err # "ok"

\* uploadSecrets, lines 343-357: one turn of the loop over host.Secrets.
UploadOneSecret ==
    /\ pc = "secretLoop"
    /\ IF remaining = 0
          THEN /\ pc' = "activate"
               /\ UNCHANGED <<remaining, ops, passed, last, exitStatus>>
          ELSE \E r \in SecretOutcomes :
                IF r = "NotFoundError"
                   THEN /\ Panic("size", r)
                        /\ UNCHANGED <<remaining, ops, passed>>
                   ELSE /\ ops' = Bump(i, "upload")
                        /\ passed' = passed \cup {sudoPasswd}
                        /\ IF UploadFatal(r)
                              THEN /\ Panic("upload", r)
                                   /\ UNCHANGED remaining
                              ELSE /\ remaining' = remaining - 1
                                   /\ last' = <<"upload", r>>
                                   /\ pc' = "secretLoop"
                                   /\ UNCHANGED exitStatus
    /\ UNCHANGED <<inputs, hosts, resultPath, i, plan, sudoPasswd, vc, tempFile,
                   assetsUp, calls>>

\* nix.GetNixSystemPath (line 368) then ssh.ActivateConfiguration (line 373).
ActivateOutcomes == {"ok", "SystemPathError", "ActivationError"}

\* doDeploy lines 142-144 and activateConfiguration, lines 361-380.
Activate ==
    /\ pc = "activate"
    /\ IF doActivate
          THEN \E r \in ActivateOutcomes :
                IF r = "SystemPathError"
                   THEN /\ Panic("systemPath", r)
                        /\ UNCHANGED <<ops, passed>>
                   ELSE /\ ops' = Bump(i, "activate")
                        /\ passed' = passed \cup {sudoPasswd}
                        /\ IF r = "ok"
                              THEN /\ last' = <<"activate", r>>
                                   /\ pc' = "health"
                                   /\ UNCHANGED exitStatus
                              ELSE Panic("activate", r)
          ELSE /\ pc' = "health"
               /\ UNCHANGED <<ops, passed, last, exitStatus>>
    /\ UNCHANGED <<inputs, hosts, resultPath, i, plan, sudoPasswd, vc, tempFile, remaining,
                   assetsUp, calls>>

\* healthchecks.Perform (lines 147 and 166).
HealthOutcomes == {"ok", "HealthCheckError"}

\* The health gate reporting only, as the loop of doHealthCheck does.
HealthNeverHalts(err) == FALSE

\* doDeploy line 148: a failed health check stops the rollout.
HealthHalts(err) == err # "ok"

\* doDeploy lines 146-155: the health gate, then the "Done:" line.
HealthCheck ==
    /\ pc = "health"
    /\ IF ~deploySkipHealthChecks
          THEN \E r \in HealthOutcomes :
                /\ last' = <<"health", r>>
                /\ IF HealthHalts(r)
                      THEN /\ ops' = [ops EXCEPT ![i]["health"] = @ + 1,
                                                 ![i]["unhealthy"] =
                                                       IF r = "ok" THEN @ ELSE @ + 1]
                           /\ pc' = "exited"
                           /\ exitStatus' = 1
                      ELSE /\ ops' = [ops EXCEPT ![i]["health"] = @ + 1,
                                                 ![i]["unhealthy"] =
                                                       IF r = "ok" THEN @ ELSE @ + 1,
                                                 ![i]["done"] = @ + 1]
                           /\ pc' = "loop"
                           /\ UNCHANGED exitStatus
          ELSE /\ ops' = Bump(i, "done")
               /\ pc' = "loop"
               /\ UNCHANGED <<last, exitStatus>>
    /\ UNCHANGED <<inputs, hosts, resultPath, i, plan, sudoPasswd, vc, tempFile, remaining,
                   assetsUp, passed, calls>>

\* getHosts as doHealthCheck calls it (line 160).
GetHostsOutcomes == {"ok", "EvaluationError"}

\* doHealthCheck, lines 160-163.
HealthCheckGetHosts ==
    /\ pc = "doHealthCheck"
    /\ \E r \in GetHostsOutcomes :
        IF r = "ok"
           THEN /\ hosts' = inventory
                /\ pc' = "hcLoop"
                /\ last' = <<"getHosts", r>>
                /\ UNCHANGED exitStatus
           ELSE /\ Panic("getHosts", r)
                /\ UNCHANGED hosts
    /\ UNCHANGED <<inputs, resultPath, i, plan, sudoPasswd, vc, tempFile, remaining,
                   assetsUp, passed, calls, ops>>

\* The standalone loop gated on the result, as the loop of doDeploy is.
StandaloneHaltsOnError(err) == err # "ok"

\* doHealthCheck line 166: the result of healthchecks.Perform is dropped,
\* so the loop goes on to the next host whatever it was.
StandaloneHalts(err) == FALSE

\* doHealthCheck, lines 165-168: one turn of the loop, or the return to main.
HealthCheckNext ==
    /\ pc = "hcLoop"
    /\ IF i < Len(hosts)
          THEN \E r \in HealthOutcomes :
                /\ i' = i + 1
                /\ ops' = [ops EXCEPT ![i + 1]["health"] = @ + 1,
                                      ![i + 1]["unhealthy"] =
                                            IF r = "ok" THEN @ ELSE @ + 1]
                /\ last' = <<"health", r>>
                /\ pc' = IF StandaloneHalts(r) THEN "teardown" ELSE "hcLoop"
          ELSE /\ pc' = "teardown"
               /\ UNCHANGED <<i, ops, last>>
    /\ UNCHANGED <<inputs, hosts, resultPath, plan, sudoPasswd, vc, tempFile, remaining,
                   assetsUp, exitStatus, passed, calls>>

\* main line 74 and the return from main: the assets are removed and the
\* process ends with status 0.
Teardown ==
    /\ pc = "teardown"
    /\ assetsUp' = FALSE
    /\ calls' = Call("teardown")
    /\ pc' = "exited"
    /\ exitStatus' = 0
    /\ UNCHANGED <<inputs, hosts, resultPath, i, plan, sudoPasswd, vc, tempFile, remaining,
                   last, passed, ops>>

Next ==
    \/ Main
    \/ ResolvePlan
    \/ Build
    \/ AskPass
    \/ NextHost
    \/ PushPaths
    \/ VaultSession
    \/ VaultReKey
    \/ UploadDynamic
    \/ RemoveTemp
    \/ StartSecrets
    \/ UploadOneSecret
    \/ Activate
    \/ HealthCheck
    \/ HealthCheckGetHosts
    \/ HealthCheckNext
    \/ Teardown

Spec == Init /\ [][Next]_vars

----------------------------------------------------------------------------
(***************************************************************************)
(* Properties.                                                             *)
(***************************************************************************)

Expect(b) == IF b THEN 1 ELSE 0

Untouched(h) == ops[h] = NoOps

Deploying == command = "deploy"

HealthGateFailed == Deploying /\ last = <<"health", "HealthCheckError">>

\* C1: in a deploy invocation, once the health check of host i has failed the
\* process has exited with status 1, no later host has had any operation, the
\* hosts up to i have each been pushed / activated / health-checked exactly as
\* the plan says (once, not undone), and from then on nothing is performed;
\* no per-host counter ever goes down.
C1_HealthFailureHalts ==
    /\ [](HealthGateFailed =>
            /\ pc = "exited"
            /\ exitStatus = 1
            /\ \A j \in HostIds : j > i => Untouched(j)
            /\ \A j \in 1..i :
                /\ ops[j].push = Expect(doPush)
                /\ ops[j].activate = Expect(doActivate)
                /\ ops[j].health = 1
                /\ ops[j].done = Expect(j < i))
    /\ [][HealthGateFailed => UNCHANGED <<ops, pc, exitStatus>>]_vars
    /\ [][Deploying =>
            \A h \in HostIds :
                /\ ops'[h].push >= ops[h].push
                /\ ops'[h].activate >= ops[h].activate
                /\ ops'[h].upload >= ops[h].upload
                /\ ops'[h].done >= ops[h].done]_vars

\* C1 witness: mode switch, two hosts, the first host's health check failed
\* after it was pushed and activated.
C1_Witness ==
    /\ HealthGateFailed
    /\ switchAction = "switch"
    /\ ~dryRun
    /\ Len(hosts) = 2
    /\ i = 1
    /\ ops[1].push = 1
    /\ ops[1].activate = 1
    /\ pc = "exited"

\* C2: with --dry-run set, a deploy invocation makes no push call, no secret
\* upload call (declared or synthesized) and no activation call on any host.
C2_DryRunNoCalls ==
    (Deploying /\ dryRun) =>
        \A h \in HostIds :
            /\ ops[h].push = 0
            /\ ops[h].dynUp = 0
            /\ ops[h].upload = 0
            /\ ops[h].activate = 0

\* C3: with mode build and no --dry-run, a deploy invocation makes no push
\* call, no secret upload call (declared or synthesized) and no activation
\* call on any host.
C3_BuildModeNoCalls ==
    (Deploying /\ ~dryRun /\ switchAction = "build") =>
        \A h \in HostIds :
            /\ ops[h].push = 0
            /\ ops[h].dynUp = 0
            /\ ops[h].upload = 0
            /\ ops[h].activate = 0

\* C4: once doDeploy has resolved the plan, and at every later position of
\* the invocation (the whole host loop included), the four flags are those of
\* the table: push for every mode but build; ask for the sudo password for
\* dry-activate/test/switch/boot with --passwd; upload secrets for
\* test/switch/boot; activate for dry-activate/test/switch/boot; all four
\* false under --dry-run.
C4_PlanTable ==
    (Deploying /\ pc \notin {"main", "doDeploy"}) =>
        /\ doPush = (~dryRun /\ switchAction # "build")
        /\ doAskPass = (/\ ~dryRun
                        /\ switchAction \in {"dry-activate", "test", "switch", "boot"}
                        /\ deployAskForSudoPasswd)
        /\ doUploadSecrets = (~dryRun /\ switchAction \in {"test", "switch", "boot"})
        /\ doActivate = (/\ ~dryRun
                         /\ switchAction \in {"dry-activate", "test", "switch", "boot"})

\* C4 witness: dry-activate with --passwd, the loop on its second host.
C4_Witness ==
    /\ Deploying
    /\ switchAction = "dry-activate"
    /\ deployAskForSudoPasswd
    /\ ~dryRun
    /\ pc = "health"
    /\ i = 2
    /\ doPush /\ doAskPass /\ ~doUploadSecrets /\ doActivate

BuildFailed == last[1] = "build" /\ last[2] # "ok"

\* C5: in a deploy invocation build() has been called exactly once at every
\* position after line 103 and never before; any host-level operation, and
\* the loop being on any host, comes after build() returned the result path;
\* after a failed build the process has panicked with every host untouched.
C5_BuildOnceBeforeHosts ==
    Deploying =>
        /\ calls.build = (IF pc \in {"main", "doDeploy", "build"} THEN 0 ELSE 1)
        /\ (i > 0 \/ \E h \in HostIds : ~Untouched(h)) => resultPath = "result"
        /\ BuildFailed =>
            /\ pc = "panicked"
            /\ i = 0
            /\ calls.auth = 0
            /\ \A h \in HostIds : Untouched(h)

\* C5 witness: a deploy over two hosts ran to the end with one build.
C5_Witness ==
    /\ Deploying
    /\ pc = "exited"
    /\ exitStatus = 0
    /\ Len(hosts) = 2
    /\ ops[1].push = 1
    /\ ops[2].push = 1
    /\ calls.build = 1

\* C6 as stated: vault.Auth and vault.Configure are each called at most once
\* in an invocation, whatever they return.
C6_AtMostOncePerInvocation ==
    /\ calls.auth <= 1
    /\ calls.configure <= 1

\* The hosts the loop has reached that opt into dynamic credentials.
VaultHostsReached == {h \in 1..i : hosts[h].vault}

\* C6 as amended: vault.Auth and vault.Configure are each called at most once
\* per reached host that opts in, Configure never more often than Auth and
\* neither without the environment credentials; a session is held only after
\* a Configure call, and once one is held neither is called again.
C6_AtMostOncePerSession ==
    /\ [](Deploying =>
            /\ calls.auth <= Cardinality(VaultHostsReached)
            /\ calls.configure <= calls.auth
            /\ (~envVault => calls.auth = 0)
            /\ (vc = "client" => calls.configure >= 1))
    /\ [][vc = "client" =>
            /\ vc' = "client"
            /\ calls'.auth = calls.auth
            /\ calls'.configure = calls.configure]_vars

\* C6 witness: two hosts opt in, the session set up at the first was used to
\* rekey both, with one Auth and one Configure call.
C6_Witness ==
    /\ Deploying
    /\ Len(hosts) = 2
    /\ hosts[1].vault /\ hosts[2].vault
    /\ ops[1].rekey = 1
    /\ ops[2].rekey = 1
    /\ calls.auth = 1
    /\ calls.configure = 1

\* C7: the credential file exists exactly from its creation by vaultReKey to
\* the os.Remove that follows the upload attempt: it exists at no later
\* position of the host (declared secrets, activation, health check), nor at
\* the loop head, nor after the process ended.
C7_TempFileRemoved ==
    tempFile <=> pc \in {"uploadDyn", "remove"}

\* C7 witness: the upload of a synthesized credential failed, and the file
\* is gone when the declared secrets are next.
C7_Witness ==
    /\ pc = "secrets"
    /\ ops[i].dynUp = 1
    /\ last = <<"uploadDyn", "UploadError">>
    /\ ~tempFile

\* C8: in a check-health invocation the hosts checked are always exactly the
\* first i selected hosts, each once; the loop is left only past the last
\* selected host; the process then ends with status 0 whatever the checks
\* returned, and a panic can only come from getHosts, before any check.
C8_CheckHealthReachesAll ==
    command = "check-health" =>
        /\ \A h \in HostIds : ops[h].health = Expect(h <= i)
        /\ pc \in {"teardown", "exited"} =>
            /\ i = Len(hosts)
            /\ hosts = inventory
        /\ pc = "exited" => exitStatus = 0
        /\ pc = "panicked" => (last = <<"getHosts", "EvaluationError">> /\ i = 0)
        /\ pc \in {"main", "doHealthCheck", "hcLoop", "teardown", "exited", "panicked"}

\* C8 witness: the first of two hosts failed its check, the second was
\* checked all the same and the process ended with status 0.
C8_Witness ==
    /\ command = "check-health"
    /\ pc = "exited"
    /\ exitStatus = 0
    /\ Len(hosts) = 2
    /\ ops[1].unhealthy = 1
    /\ ops[2].health = 1

SecretFailed == last[1] \in {"size", "upload"} /\ last[2] # "ok"

ActivationFailed == last[1] \in {"systemPath", "activate"} /\ last[2] # "ok"

\* C9: once the size lookup or the upload of a declared secret, or the
\* activation, has failed for host i, the process has panicked; host i has had
\* no health check and no Done, and after a secret failure no activation and
\* no upload of the secrets that were left; no later host has had any
\* operation; every earlier host is as it was when it was done.
C9_SecretOrActivationFailureAborts ==
    (SecretFailed \/ ActivationFailed) =>
        /\ pc = "panicked"
        /\ exitStatus = 2
        /\ ops[i].health = 0
        /\ ops[i].done = 0
        /\ SecretFailed =>
            /\ ops[i].activate = 0
            /\ remaining >= 1
            /\ ops[i].upload =
                 hosts[i].secrets - remaining + Expect(last[1] = "upload")
        /\ \A j \in HostIds : j > i => Untouched(j)
        /\ \A j \in 1..(i - 1) :
            /\ ops[j].done = 1
            /\ ops[j].push = 1
            /\ ops[j].upload = Expect(doUploadSecrets) * hosts[j].secrets
            /\ ops[j].activate = 1

\* C9 witness: the first of two declared secrets of the second of two hosts
\* failed to upload; the other secret was never uploaded.
C9_Witness ==
    /\ last = <<"upload", "UploadError">>
    /\ pc = "panicked"
    /\ Len(hosts) = 2
    /\ i = 2
    /\ hosts[2].secrets = 2
    /\ remaining = 2
    /\ ops[2].upload = 1
    /\ ops[1].done = 1

\* C10: once the transfer of paths to host i has failed, the process has
\* panicked, host i has had no rekey, secret upload, activation or health
\* check, and no later host has had any operation.
C10_PushFailureAborts ==
    last = <<"push", "TransferError">> =>
        /\ pc = "panicked"
        /\ ops[i].rekey = 0
        /\ ops[i].dynUp = 0
        /\ ops[i].upload = 0
        /\ ops[i].activate = 0
        /\ ops[i].health = 0
        /\ \A j \in HostIds : j > i => Untouched(j)

\* The calls whose failure the claim's fatal path names: build (getHosts,
\* nix.BuildMachines), push (nix.GetPathsToPush), the upload of a declared
\* secret (secrets.GetSecretSize, secrets.UploadSecret) and activation
\* (nix.GetNixSystemPath, ssh.ActivateConfiguration).
NamedFatalCalls == {"build", "paths", "push", "size", "upload", "systemPath", "activate"}

\* The secret-service calls: the environment lookup, vault.Auth,
\* vault.Configure, vault.CreateOrReKeyHostToken.
SecretServiceCalls == {"getenv", "auth", "configure", "rekey"}

\* The outcomes of a deploy invocation, the fatal path entered by a failure
\* of one of the calls of F only.
DeployOutcomes(F) ==
    Deploying =>
        /\ exitStatus \in {-1, 0, 1, 2}
        /\ (exitStatus = -1) <=> (pc \notin {"exited", "panicked"})
        /\ exitStatus = 0 =>
            /\ pc = "exited"
            /\ i = Len(hosts)
            /\ hosts = inventory
            /\ \A h \in HostIds : ops[h].done = 1
        /\ exitStatus = 1 =>
            /\ pc = "exited"
            /\ last = <<"health", "HealthCheckError">>
            /\ ops[i].unhealthy = 1
        /\ exitStatus = 2 =>
            /\ pc = "panicked"
            /\ last[1] \in F
            /\ last[2] # "ok"
        /\ (last[1] \in SecretServiceCalls /\ last[2] # "ok") =>
            /\ pc # "panicked"
            /\ exitStatus \in {-1, 0}

\* C11 as stated: a deploy invocation ends with status 0 only with every
\* selected host Done, with status 1 only by a failed health check, and
\* fatally (status 2) only by a failure of build, push, declared-secret upload
\* or activation; a secret-service failure ends it in neither of the two.
C11_ThreeOutcomes == DeployOutcomes(NamedFatalCalls)

\* C11 as amended: the same, the fatal path being entered also by a failure
\* of the read of the sudo password (line 318).
C11_ThreeOutcomesWithAsk == DeployOutcomes(NamedFatalCalls \cup {"ask"})

\* C11 witness: vault.Auth failed at the only host, which still reached Done,
\* and the invocation ended with status 0.
C11_Witness ==
    /\ Deploying
    /\ exitStatus = 0
    /\ Len(hosts) = 1
    /\ hosts[1].vault
    /\ calls.auth = 1
    /\ calls.configure = 0
    /\ ops[1].done = 1
    /\ ops[1].activate = 1

\* The plan enables no per-host step (mode build, or --dry-run).
PlanEmpty == ~doPush /\ ~doUploadSecrets /\ ~doActivate

\* The per-host operations of host h so far came in the order push, rekey,
\* upload of the synthesized credential, declared secrets, activation, health
\* check, Done, each at most once (each declared secret at most once).
InOrderOnce(h) ==
    /\ ops[h].push <= 1
    /\ ops[h].rekey <= 1
    /\ ops[h].dynUp <= 1
    /\ ops[h].upload <= hosts[h].secrets
    /\ ops[h].activate <= 1
    /\ ops[h].health <= 1
    /\ ops[h].done <= 1
    /\ ops[h].rekey > 0 => ops[h].push = Expect(doPush)
    /\ ops[h].dynUp > 0 => ops[h].rekey = 1
    /\ ops[h].upload > 0 => ops[h].push = Expect(doPush)
    /\ (h = i /\ pc \in {"push", "vault", "rekey", "uploadDyn", "remove"}) =>
            ops[h].upload = 0
    /\ ops[h].activate > 0 =>
            ops[h].upload = Expect(doUploadSecrets) * hosts[h].secrets
    /\ ops[h].health > 0 => ops[h].activate = Expect(doActivate)
    /\ ops[h].done > 0 => ops[h].health = Expect(~deploySkipHealthChecks)

\* C12: for every host the loop has reached, the operations performed came
\* in the fixed order, none twice, and each only if the plan enables it: push
\* only with the push flag, declared secrets only with the upload flag,
\* activation only with the activate flag, and no rekey, credential upload or
\* health check under a plan that enables nothing.
C12_OrderedOncePlanEnabled ==
    Deploying =>
        \A h \in 1..i :
            /\ InOrderOnce(h)
            /\ ops[h].push > 0 => doPush
            /\ ops[h].upload > 0 => doUploadSecrets
            /\ ops[h].activate > 0 => doActivate
            /\ PlanEmpty =>
                /\ ops[h].rekey = 0
                /\ ops[h].dynUp = 0
                /\ ops[h].health = 0

\* The order and at-most-once part of C12 alone, which the loop body keeps.
OrderKept == Deploying => \A h \in 1..i : InOrderOnce(h)

\* Host h has had an operation that follows the push in the loop body.
PastPush(h) ==
    \/ ops[h].rekey > 0
    \/ ops[h].dynUp > 0
    \/ ops[h].upload > 0
    \/ ops[h].activate > 0
    \/ ops[h].health > 0
    \/ ops[h].done > 0

\* C13 as stated: when a host has been pushed to, its secret provisioning is
\* already performed (every declared secret uploaded if the plan uploads, the
\* credential rekeyed if the host opts in and a session is held); activation
\* and the health check follow the push.
C13_ProvisionBeforePush ==
    Deploying =>
        \A h \in 1..i :
            /\ ops[h].push > 0 =>
                /\ ops[h].upload = Expect(doUploadSecrets) * hosts[h].secrets
                /\ (hosts[h].vault /\ vc = "client") => ops[h].rekey = 1
            /\ ops[h].activate > 0 => ops[h].push = Expect(doPush)
            /\ ops[h].health > 0 => ops[h].activate = Expect(doActivate)

\* C13 as amended: the push comes first.  While the loop is at the push of a
\* host nothing has been done on it and no session set-up has been made for
\* it; every later operation on a host comes after its push (when the plan
\* pushes); activation comes after the vault step and every declared secret,
\* and the health check after activation.
C13_PushBeforeProvision ==
    Deploying =>
        \A h \in 1..i :
            /\ (h = i /\ pc = "push") =>
                /\ Untouched(h)
                /\ calls.auth <= Cardinality({g \in 1..(i - 1) : hosts[g].vault})
            /\ PastPush(h) => ops[h].push = Expect(doPush)
            /\ ops[h].activate > 0 =>
                /\ ops[h].upload = Expect(doUploadSecrets) * hosts[h].secrets
                /\ h = i => pc \notin {"push", "vault", "rekey", "uploadDyn",
                                       "remove", "secrets", "secretLoop"}
            /\ ops[h].health > 0 => ops[h].activate = Expect(doActivate)

\* C13 witness: the session was set up and the credential rekeyed for the
\* first host after its push, before its declared secrets and activation.
C13_Witness ==
    /\ Deploying
    /\ i = 1
    /\ pc = "uploadDyn"
    /\ ops[1].push = 1
    /\ ops[1].rekey = 1
    /\ calls.auth = 1
    /\ ops[1].upload = 0
    /\ ops[1].activate = 0
    /\ doUploadSecrets
    /\ hosts[1].secrets = 2

\* C14: at every moment the hosts after the one the loop is on are
\* untouched, and in a deploy the hosts before it are Done, once; a step
\* moves the loop by at most one host, forward, and changes the counters of
\* no host but the one the loop is then on, so a host the loop has left is
\* never operated on again.
C14_OneHostAtATime ==
    /\ [](\A h \in HostIds :
            /\ h > i => Untouched(h)
            /\ (Deploying /\ h < i) => ops[h].done = 1
            /\ ops[h].done <= 1
            /\ ops[h].push <= 1
            /\ ops[h].health <= 1)
    /\ [][/\ i' \in {i, i + 1}
          /\ \A h \in HostIds : h # i' => ops'[h] = ops[h]]_vars

\* C14 witness: the loop is working on the second host, the first is Done
\* and keeps the operations it had.
C14_Witness ==
    /\ Deploying
    /\ i = 2
    /\ pc = "activate"
    /\ ops[1].done = 1
    /\ ops[1].push = 1
    /\ ops[1].activate = 1
    /\ ops[2].push = 1
    /\ ops[2].activate = 0

\* The loop has not yet come to the vault block (line 122) of host i.
BeforeVaultStep ==
    \/ pc \in {"push", "vault"}
    \/ (pc = "panicked" /\ last[1] = "paths")

\* The hosts that opt in and whose vault block the loop has been through.
VaultHostsPassed ==
    {h \in 1..i : hosts[h].vault /\ (h < i \/ ~BeforeVaultStep)}

\* C15: the session handle is nil, and neither vault.Auth nor
\* vault.Configure has been called, while no reached host opts in; a failed
\* set-up leaves the handle nil; while the handle is nil (the environment
\* credentials being set) every opted-in host the loop has been through has
\* had its own set-up attempt; with a handle held, the opted-in hosts rekeyed
\* are all those from the first rekeyed one on; and once a handle is held it
\* stays and vault.Auth and vault.Configure are not called again.
C15_LazySessionRetried ==
    /\ [](Deploying =>
            /\ VaultHostsReached = {} =>
                (vc = "nil" /\ calls.auth = 0 /\ calls.configure = 0)
            /\ (last[1] \in {"getenv", "auth", "configure"} /\ last[2] # "ok") =>
                vc = "nil"
            /\ (vc = "nil" /\ envVault) => calls.auth = Cardinality(VaultHostsPassed)
            /\ (vc = "nil" /\ ~envVault) => calls.auth = 0
            /\ vc = "nil" => \A h \in HostIds : ops[h].rekey = 0
            /\ \A g, h \in VaultHostsPassed :
                (g < h /\ ops[g].rekey = 1 /\ (h < i \/ pc # "rekey")) =>
                    ops[h].rekey = 1)
    /\ [][vc = "client" =>
            /\ vc' = vc
            /\ calls'.auth = calls.auth
            /\ calls'.configure = calls.configure]_vars

\* C15 witness: the set-up failed at the first opted-in host, was attempted
\* again at the second and succeeded, and the second host was rekeyed.
C15_Witness ==
    /\ Deploying
    /\ i = 2
    /\ hosts[1].vault /\ hosts[2].vault
    /\ calls.auth = 2
    /\ vc = "client"
    /\ ops[1].rekey = 0
    /\ ops[2].rekey = 1

RekeyFailed == last[1] = "rekey" /\ last[2] # "ok"

\* C16: a host has had a rekey request only if it opts in and a session is
\* held; after a failed rekey (the token request or the credential file),
\* until the next collaborator call, the process goes on, with no credential
\* file and no credential upload for that host; and a host is Done only with all its declared
\* secrets uploaded, its activation and its health check as the plan and the
\* flags say, whether or not its rekey gave a credential.
C16_RekeyGuardedAndNonFatal ==
    Deploying =>
        /\ pc = "rekey" => (host.vault /\ vc = "client")
        /\ \A h \in 1..i :
            /\ ops[h].rekey > 0 => (hosts[h].vault /\ vc = "client")
            /\ ops[h].dynUp <= ops[h].rekey
            /\ ops[h].done = 1 =>
                /\ ops[h].upload = Expect(doUploadSecrets) * hosts[h].secrets
                /\ ops[h].activate = Expect(doActivate)
                /\ ops[h].health = Expect(~deploySkipHealthChecks)
        /\ RekeyFailed =>
            /\ \E h \in 1..i : ops[h].rekey = 1 /\ ops[h].dynUp = 0
            /\ ~tempFile
            /\ pc \notin {"panicked", "uploadDyn", "remove"}
            /\ exitStatus \in {-1, 0}

\* C16 witness: the rekey of the first host failed; the host had no
\* credential upload, had its declared secrets, activation and health check,
\* is Done, and the second host has been pushed to.
C16_Witness ==
    /\ Deploying
    /\ i = 2
    /\ ops[1].rekey = 1
    /\ ops[1].dynUp = 0
    /\ ops[1].upload = 1
    /\ ops[1].activate = 1
    /\ ops[1].health = 1
    /\ ops[1].done = 1
    /\ ops[2].push = 1

\* The command line asks for the sudo password: an activating mode,
\* --passwd, no --dry-run.
AskCondition ==
    /\ ~dryRun
    /\ switchAction \in {"dry-activate", "test", "switch", "boot"}
    /\ deployAskForSudoPasswd

\* C17: in a deploy invocation the sudo password is asked for at most once,
\* only under the ask condition and only after build() returned the result
\* path; once the loop is on a host, any host has had an operation, or the
\* process has exited, it has been asked for exactly once under the
\* condition and never otherwise; without the condition the password is
\* empty and only the empty string has been handed to secrets.UploadSecret
\* and ssh.ActivateConfiguration, and under it only the password read.
C17_SudoPasswordOnce ==
    Deploying =>
        /\ calls.ask <= 1
        /\ calls.ask > 0 => (AskCondition /\ resultPath = "result" /\ doAskPass)
        /\ (i > 0 \/ pc = "exited" \/ \E h \in HostIds : ~Untouched(h)) =>
            /\ calls.ask = Expect(AskCondition)
            /\ sudoPasswd = (IF AskCondition THEN "pw" ELSE "")
        /\ ~AskCondition => (sudoPasswd = "" /\ passed \subseteq {""})
        /\ AskCondition => passed \subseteq {"pw"}

\* C17 witness: mode switch with --passwd, two hosts; the password was read
\* once and handed to the uploads and activations of both hosts.
C17_Witness ==
    /\ Deploying
    /\ AskCondition
    /\ calls.ask = 1
    /\ i = 2
    /\ ops[1].upload = 1
    /\ ops[1].activate = 1
    /\ ops[2].upload = 1
    /\ ops[2].activate = 1
    /\ passed = {"pw"}

\* C18: with --dry-run set, a deploy invocation makes no secret-service
\* set-up call, no rekey request, no health check and no other host-level
\* call, and does not end with the status of the health-gate halt.
C18_DryRunOnlyBuilds ==
    (Deploying /\ dryRun) =>
        /\ calls.auth = 0
        /\ calls.configure = 0
        /\ exitStatus # 1
        /\ \A h \in HostIds :
            /\ ops[h].push = 0
            /\ ops[h].rekey = 0
            /\ ops[h].dynUp = 0
            /\ ops[h].upload = 0
            /\ ops[h].activate = 0
            /\ ops[h].health = 0

\* C19: whenever a deploy invocation has ended (return from main,
\* os.Exit(1), or a panic), assets.Teardown has been called and the unpacked
\* assets are gone.
C19_AssetsReleasedOnExit ==
    (Deploying /\ pc \in {"exited", "panicked"}) =>
        /\ ~assetsUp
        /\ calls.teardown = 1

DynUploadFailed == last = <<"uploadDyn", "UploadError">>

\* C20: after a failed upload of the synthesized credential, until the next
\* collaborator call, the process has not panicked and has no status but
\* that of success; the loop is where a successful upload leaves it, the
\* os.Remove of line 132, whatever the upload returned; a host that had a
\* credential upload is Done only with its declared secrets, activation and
\* health check as the plan and the flags say; whereas a failed upload of a
\* declared secret has panicked.
C20_DynamicUploadFailureIgnored ==
    Deploying =>
        /\ DynUploadFailed =>
            /\ pc # "panicked"
            /\ exitStatus \in {-1, 0}
            /\ \E h \in 1..i : ops[h].dynUp = 1
        /\ pc = "remove" => (last[1] = "uploadDyn" /\ ops[i].dynUp = 1)
        /\ \A h \in 1..i :
            (ops[h].dynUp = 1 /\ ops[h].done = 1) =>
                /\ ops[h].upload = Expect(doUploadSecrets) * hosts[h].secrets
                /\ ops[h].activate = Expect(doActivate)
                /\ ops[h].health = Expect(~deploySkipHealthChecks)
        /\ last = <<"upload", "UploadError">> =>
            (pc = "panicked" /\ exitStatus = 2)

\* C20 witness: the upload of the synthesized credential failed, the file is
\* removed and the loop is uploading the host's two declared secrets, with
\* the activation to follow.
C20_Witness ==
    /\ Deploying
    /\ DynUploadFailed
    /\ pc = "secretLoop"
    /\ remaining = 2
    /\ doActivate
    /\ ~tempFile
    /\ ops[i].dynUp = 1

====
